---- MODULE Spec2Model ----
(***************************************************************************)
(* Model of the EVEX -> VEX compression pass                               *)
(* (lib/Target/X86/X86EvexToVex.cpp).                                      *)
(*                                                                         *)
(* A machine function is a sequence of machine instructions.  Each         *)
(* instruction carries its descriptor (opcode and the TSFlags bits the     *)
(* pass reads), its explicit operands and the AC_EVEX_2_VEX asm-printer    *)
(* flag.  runOnMachineFunction walks the function and calls                *)
(* CompressEvexToVexImpl on every instruction.                             *)
(***************************************************************************)
EXTENDS Integers, Sequences, FiniteSets, TLC

VARIABLES
    MF,         \* the machine function: Seq of MachineInstr
    hasAVX512,  \* X86Subtarget::hasAVX512()
    NDEBUG,     \* TRUE when the build compiles assert() out
    pc,         \* position of runOnMachineFunction: idle / loop / done / aborted
    I,          \* index of the instruction the loop visits next
    Changed,    \* the local `Changed` of runOnMachineFunction
    Result,     \* value returned by the last completed runOnMachineFunction
    runs,       \* number of times runOnMachineFunction was entered
    MForig,     \* history: the function as the pass first received it
    MFentry,    \* history: the function at entry of the current run
    visits,     \* history: per instruction, calls of CompressEvexToVexImpl in this run
    outcome     \* history: per instruction, what the call in this run returned

vars == <<MF, hasAVX512, NDEBUG, pc, I, Changed, Result, runs,
          MForig, MFentry, visits, outcome>>

\* Longest machine function of the multi-instruction specification.
MaxInstrs == 2

\* Number of times the pass is run over the same function.
MaxRuns == 2

----------------------------------------------------------------------------
(* Opcodes.  The value 0 of `unsigned NewOpc` is the opcode number of PHI. *)

OpcZero == "PHI"

VALIGNDOpcs == {"VALIGNDZ128rri", "VALIGNDZ128rmi"}
VALIGNQOpcs == {"VALIGNQZ128rri", "VALIGNQZ128rmi"}
VALIGNOpcs == VALIGNDOpcs \cup VALIGNQOpcs

VSHUFOpcs ==
    {"VSHUFF32X4Z256rmi", "VSHUFF32X4Z256rri", "VSHUFF64X2Z256rmi", "VSHUFF64X2Z256rri",
     "VSHUFI32X4Z256rmi", "VSHUFI32X4Z256rri", "VSHUFI64X2Z256rmi", "VSHUFI64X2Z256rri"}

VRNDSCALEOpcs ==
    {"VRNDSCALEPDZ128rri", "VRNDSCALEPDZ128rmi", "VRNDSCALEPSZ128rri", "VRNDSCALEPSZ128rmi",
     "VRNDSCALEPDZ256rri", "VRNDSCALEPDZ256rmi", "VRNDSCALEPSZ256rri", "VRNDSCALEPSZ256rmi",
     "VRNDSCALESDZr", "VRNDSCALESDZm", "VRNDSCALESSZr", "VRNDSCALESSZm",
     "VRNDSCALESDZr_Int", "VRNDSCALESDZm_Int", "VRNDSCALESSZr_Int", "VRNDSCALESSZm_Int"}

(* The generated tables (X86GenEVEX2VEXTables.inc): arrays of               *)
(* X86EvexToVexCompressTableEntry.  A representative excerpt: one plain     *)
(* pair per width plus the pairs of the three adjustment families.          *)
X86EvexToVex128CompressTable ==
    << [EvexOpcode |-> "VADDPSZ128rr",       VexOpcode |-> "VADDPSrr"],
       [EvexOpcode |-> "VALIGNDZ128rri",     VexOpcode |-> "VPALIGNRrri"],
       [EvexOpcode |-> "VALIGNQZ128rri",     VexOpcode |-> "VPALIGNRrri"],
       [EvexOpcode |-> "VRNDSCALEPSZ128rri", VexOpcode |-> "VROUNDPSr"] >>

X86EvexToVex256CompressTable ==
    << [EvexOpcode |-> "VADDPSZ256rr",       VexOpcode |-> "VADDPSYrr"],
       [EvexOpcode |-> "VSHUFF32X4Z256rri",  VexOpcode |-> "VPERM2F128rr"],
       [EvexOpcode |-> "VRNDSCALEPDZ256rri", VexOpcode |-> "VROUNDYPDr"] >>

\* EvexToVexTable[EvexOp] = VexOp on a DenseMap: the last write of a key wins.
AddTableEntry(EvexToVexTable, EvexOp, VexOp) ==
    [k \in DOMAIN EvexToVexTable \cup {EvexOp} |->
        IF k = EvexOp THEN VexOp ELSE EvexToVexTable[k]]

RECURSIVE BuildTable(_, _)
BuildTable(Entries, n) ==
    IF n = 0 THEN [k \in {} |-> OpcZero]
    ELSE AddTableEntry(BuildTable(Entries, n - 1),
                       Entries[n].EvexOpcode, Entries[n].VexOpcode)

\* The two maps the constructor fills.
EvexToVex128Table == BuildTable(X86EvexToVex128CompressTable, Len(X86EvexToVex128CompressTable))
EvexToVex256Table == BuildTable(X86EvexToVex256CompressTable, Len(X86EvexToVex256CompressTable))

\* TII->get(NewOpc): the descriptor of a VEX opcode is VEX encoded, has no
\* mask/broadcast bits and no EVEX_L2; VEX_L is set for the 256-bit forms.
TIIget(Opc) ==
    [Opcode |-> Opc, Encoding |-> "VEX", EVEX_K |-> FALSE, EVEX_B |-> FALSE,
     EVEX_L2 |-> FALSE,
     VEX_L |-> Opc \in {"VADDPSYrr", "VPERM2F128rr", "VPERM2I128rr",
                        "VPERM2F128rm", "VPERM2I128rm", "VROUNDYPDr"}]

----------------------------------------------------------------------------
(* Operands and registers.  A register is its class and its index in the   *)
(* class; the X86 register enum numbers XMM0..XMM31, YMM0..YMM31 and        *)
(* ZMM0..ZMM31 contiguously, so a range test on the enum is a test of the   *)
(* class and of the index.                                                  *)

NoReg == [cls |-> "NoRegister", idx |-> 0]
RegOp(r) == [isReg |-> TRUE, Reg |-> r, Imm |-> 0]
ImmOp(v) == [isReg |-> FALSE, Reg |-> NoReg, Imm |-> v]

\* MI.getOperand(MI.getNumExplicitOperands()-1)
LastOp(MI) == MI.Operands[Len(MI.Operands)]
SetLastImm(MI, v) ==
    [MI EXCEPT !.Operands[Len(MI.Operands)] = ImmOp(v)]

\* a & b on non-negative operands.
RECURSIVE BitAnd(_, _)
BitAnd(a, b) ==
    IF a = 0 \/ b = 0 THEN 0
    ELSE (a % 2) * (b % 2) + 2 * BitAnd(a \div 2, b \div 2)

\* ImmVal & m for an int64_t ImmVal and a mask 0 <= m < 256: in two's
\* complement only the low eight bits of ImmVal take part.
AndMask(ImmVal, m) == BitAnd(ImmVal % 256, m)

\* a | b on non-negative operands.
BitOr(a, b) == a + b - BitAnd(a, b)

----------------------------------------------------------------------------
(* usesExtendedRegister.  The result is "true" or "false", or "assert"     *)
(* when the assertion of line 156 fails in a build that keeps assert().     *)

\* Mutant: the YMM range is forgotten.
isHiRegIdx_XMMOnly(Reg) ==
    Reg.cls = "XMM" /\ Reg.idx >= 16 /\ Reg.idx <= 31

isHiRegIdx(Reg) ==
    IF Reg.cls = "XMM" /\ Reg.idx >= 16 /\ Reg.idx <= 31 THEN TRUE
    ELSE IF Reg.cls = "YMM" /\ Reg.idx >= 16 /\ Reg.idx <= 31 THEN TRUE
    ELSE FALSE

\* Reg >= X86::ZMM0 && Reg <= X86::ZMM31
isZMMReg(Reg) == Reg.cls = "ZMM" /\ Reg.idx >= 0 /\ Reg.idx <= 31

\* Mutant: the loop without its assertion.
RECURSIVE scanExplicitOperands_NoAssert(_, _)
scanExplicitOperands_NoAssert(Operands, n) ==
    IF n > Len(Operands) THEN "false"
    ELSE IF ~Operands[n].isReg THEN scanExplicitOperands_NoAssert(Operands, n + 1)
    ELSE IF isHiRegIdx(Operands[n].Reg) THEN "true"
    ELSE scanExplicitOperands_NoAssert(Operands, n + 1)

\* The loop over MI.explicit_operands(), from operand n on.
RECURSIVE scanExplicitOperands(_, _)
scanExplicitOperands(Operands, n) ==
    IF n > Len(Operands) THEN "false"
    ELSE IF ~Operands[n].isReg THEN scanExplicitOperands(Operands, n + 1)
    ELSE IF ~NDEBUG /\ isZMMReg(Operands[n].Reg) THEN "assert"
    ELSE IF isHiRegIdx(Operands[n].Reg) THEN "true"
    ELSE scanExplicitOperands(Operands, n + 1)

usesExtendedRegister(MI) == scanExplicitOperands(MI.Operands, 1)

----------------------------------------------------------------------------
(* performCustomAdjustments.  The result is the instruction as the call    *)
(* leaves it and what the call returned ("assert": a failed assertion).    *)

\* Mutant: the two scales exchanged.
performCustomAdjustments_ScaleSwapped(MI, NewOpc) ==
    LET Opc == MI.Desc.Opcode IN
    IF Opc \in VALIGNOpcs THEN
        IF ~NDEBUG /\ NewOpc \notin {"VPALIGNRrri", "VPALIGNRrmi"}
        THEN [ret |-> "assert", MI |-> MI]
        ELSE LET Scale == IF Opc \in VALIGNQOpcs THEN 4 ELSE 8
             IN [ret |-> "true", MI |-> SetLastImm(MI, LastOp(MI).Imm * Scale)]
    ELSE IF Opc \in VSHUFOpcs THEN
        IF ~NDEBUG /\ NewOpc \notin {"VPERM2F128rr", "VPERM2I128rr",
                                     "VPERM2F128rm", "VPERM2I128rm"}
        THEN [ret |-> "assert", MI |-> MI]
        ELSE LET ImmVal == LastOp(MI).Imm
             IN [ret |-> "true",
                 MI |-> SetLastImm(MI, BitOr(BitOr(32, AndMask(ImmVal, 2) * 8),
                                             AndMask(ImmVal, 1)))]
    ELSE IF Opc \in VRNDSCALEOpcs THEN
        LET ImmVal == LastOp(MI).Imm
        IN IF AndMask(ImmVal, 15) # ImmVal
           THEN [ret |-> "false", MI |-> MI]
           ELSE [ret |-> "true", MI |-> MI]
    ELSE [ret |-> "true", MI |-> MI]

\* Mutant: bit 1 of the lane select moved to bit 3 instead of bit 4.
performCustomAdjustments_ShiftTwo(MI, NewOpc) ==
    LET Opc == MI.Desc.Opcode IN
    IF Opc \in VALIGNOpcs THEN
        IF ~NDEBUG /\ NewOpc \notin {"VPALIGNRrri", "VPALIGNRrmi"}
        THEN [ret |-> "assert", MI |-> MI]
        ELSE LET Scale == IF Opc \in VALIGNQOpcs THEN 8 ELSE 4
             IN [ret |-> "true", MI |-> SetLastImm(MI, LastOp(MI).Imm * Scale)]
    ELSE IF Opc \in VSHUFOpcs THEN
        IF ~NDEBUG /\ NewOpc \notin {"VPERM2F128rr", "VPERM2I128rr",
                                     "VPERM2F128rm", "VPERM2I128rm"}
        THEN [ret |-> "assert", MI |-> MI]
        ELSE LET ImmVal == LastOp(MI).Imm
             IN [ret |-> "true",
                 MI |-> SetLastImm(MI, BitOr(BitOr(32, AndMask(ImmVal, 2) * 4),
                                             AndMask(ImmVal, 1)))]
    ELSE IF Opc \in VRNDSCALEOpcs THEN
        LET ImmVal == LastOp(MI).Imm
        IN IF AndMask(ImmVal, 15) # ImmVal
           THEN [ret |-> "false", MI |-> MI]
           ELSE [ret |-> "true", MI |-> MI]
    ELSE [ret |-> "true", MI |-> MI]

\* Mutant: the range check keeps five bits (0x1f) instead of four.
performCustomAdjustments_FiveBits(MI, NewOpc) ==
    LET Opc == MI.Desc.Opcode IN
    IF Opc \in VALIGNOpcs THEN
        IF ~NDEBUG /\ NewOpc \notin {"VPALIGNRrri", "VPALIGNRrmi"}
        THEN [ret |-> "assert", MI |-> MI]
        ELSE LET Scale == IF Opc \in VALIGNQOpcs THEN 8 ELSE 4
             IN [ret |-> "true", MI |-> SetLastImm(MI, LastOp(MI).Imm * Scale)]
    ELSE IF Opc \in VSHUFOpcs THEN
        IF ~NDEBUG /\ NewOpc \notin {"VPERM2F128rr", "VPERM2I128rr",
                                     "VPERM2F128rm", "VPERM2I128rm"}
        THEN [ret |-> "assert", MI |-> MI]
        ELSE LET ImmVal == LastOp(MI).Imm
             IN [ret |-> "true",
                 MI |-> SetLastImm(MI, BitOr(BitOr(32, AndMask(ImmVal, 2) * 8),
                                             AndMask(ImmVal, 1)))]
    ELSE IF Opc \in VRNDSCALEOpcs THEN
        LET ImmVal == LastOp(MI).Imm
        IN IF AndMask(ImmVal, 31) # ImmVal
           THEN [ret |-> "false", MI |-> MI]
           ELSE [ret |-> "true", MI |-> MI]
    ELSE [ret |-> "true", MI |-> MI]

performCustomAdjustments(MI, NewOpc) ==
    LET Opc == MI.Desc.Opcode IN
    IF Opc \in VALIGNOpcs THEN
        IF ~NDEBUG /\ NewOpc \notin {"VPALIGNRrri", "VPALIGNRrmi"}
        THEN [ret |-> "assert", MI |-> MI]
        ELSE LET Scale == IF Opc \in VALIGNQOpcs THEN 8 ELSE 4
             IN [ret |-> "true", MI |-> SetLastImm(MI, LastOp(MI).Imm * Scale)]
    ELSE IF Opc \in VSHUFOpcs THEN
        IF ~NDEBUG /\ NewOpc \notin {"VPERM2F128rr", "VPERM2I128rr",
                                     "VPERM2F128rm", "VPERM2I128rm"}
        THEN [ret |-> "assert", MI |-> MI]
        ELSE LET ImmVal == LastOp(MI).Imm
             \* Set bit 5, move bit 1 to bit 4, copy bit 0.
             IN [ret |-> "true",
                 MI |-> SetLastImm(MI, BitOr(BitOr(32, AndMask(ImmVal, 2) * 8),
                                             AndMask(ImmVal, 1)))]
    ELSE IF Opc \in VRNDSCALEOpcs THEN
        LET ImmVal == LastOp(MI).Imm
        \* Ensure that only bits 3:0 of the immediate are used.
        IN IF AndMask(ImmVal, 15) # ImmVal
           THEN [ret |-> "false", MI |-> MI]
           ELSE [ret |-> "true", MI |-> MI]
    ELSE [ret |-> "true", MI |-> MI]

----------------------------------------------------------------------------
(* CompressEvexToVexImpl.                                                  *)

\* It != Table.end() ? It->second : 0
Find(Table, Opc) == IF Opc \in DOMAIN Table THEN Table[Opc] ELSE OpcZero

\* Mutant: a miss in the partition of the instruction's width falls back
\* to the other partition.
LookupNewOpc_OtherTable(Desc) ==
    LET IsEVEX_V128 == ~Desc.EVEX_L2 /\ ~Desc.VEX_L
        IsEVEX_V256 == ~Desc.EVEX_L2 /\ Desc.VEX_L
    IN  IF IsEVEX_V256 THEN
            IF Find(EvexToVex256Table, Desc.Opcode) # OpcZero
            THEN Find(EvexToVex256Table, Desc.Opcode)
            ELSE Find(EvexToVex128Table, Desc.Opcode)
        ELSE IF IsEVEX_V128 THEN
            IF Find(EvexToVex128Table, Desc.Opcode) # OpcZero
            THEN Find(EvexToVex128Table, Desc.Opcode)
            ELSE Find(EvexToVex256Table, Desc.Opcode)
        ELSE OpcZero

\* Lines 256-279: the value of NewOpc once the tables were searched.
LookupNewOpc(Desc) ==
    LET IsEVEX_V128 == ~Desc.EVEX_L2 /\ ~Desc.VEX_L
        IsEVEX_V256 == ~Desc.EVEX_L2 /\ Desc.VEX_L
    IN  IF IsEVEX_V256 THEN Find(EvexToVex256Table, Desc.Opcode)
        ELSE IF IsEVEX_V128 THEN Find(EvexToVex128Table, Desc.Opcode)
        ELSE OpcZero

\* Mutant: the annotation is set but the descriptor is not replaced.
Commit_KeepsDesc(MI, NewOpc) == [MI EXCEPT !.AsmPrinterFlag = TRUE]

\* MI.setDesc(TII->get(NewOpc)); MI.setAsmPrinterFlag(X86::AC_EVEX_2_VEX);
Commit(MI, NewOpc) == [MI EXCEPT !.Desc = TIIget(NewOpc), !.AsmPrinterFlag = TRUE]

\* Mutant: only EVEX_K is tested, EVEX_B is forgotten.
CompressEvexToVexImpl_NoBroadcast(MI) ==
    LET Desc == MI.Desc
        NewOpc == LookupNewOpc(Desc)
        Uses == usesExtendedRegister(MI)
        Adj == performCustomAdjustments(MI, NewOpc)
    IN  IF Desc.Encoding # "EVEX" THEN [ret |-> "false", MI |-> MI]
        ELSE IF Desc.EVEX_K THEN [ret |-> "false", MI |-> MI]
        ELSE IF Desc.EVEX_L2 /\ ~Desc.VEX_L THEN [ret |-> "false", MI |-> MI]
        ELSE IF NewOpc = OpcZero THEN [ret |-> "false", MI |-> MI]
        ELSE IF Uses = "assert" THEN [ret |-> "assert", MI |-> MI]
        ELSE IF Uses = "true" THEN [ret |-> "false", MI |-> MI]
        ELSE IF Adj.ret = "assert" THEN [ret |-> "assert", MI |-> Adj.MI]
        ELSE IF Adj.ret = "false" THEN [ret |-> "false", MI |-> Adj.MI]
        ELSE [ret |-> "true", MI |-> Commit(Adj.MI, NewOpc)]

\* Mutant: the custom adjustments run before the register check.
CompressEvexToVexImpl_AdjustFirst(MI) ==
    LET Desc == MI.Desc
        NewOpc == LookupNewOpc(Desc)
        Adj == performCustomAdjustments(MI, NewOpc)
        Uses == usesExtendedRegister(Adj.MI)
    IN  IF Desc.Encoding # "EVEX" THEN [ret |-> "false", MI |-> MI]
        ELSE IF Desc.EVEX_K \/ Desc.EVEX_B THEN [ret |-> "false", MI |-> MI]
        ELSE IF Desc.EVEX_L2 /\ ~Desc.VEX_L THEN [ret |-> "false", MI |-> MI]
        ELSE IF NewOpc = OpcZero THEN [ret |-> "false", MI |-> MI]
        ELSE IF Adj.ret = "assert" THEN [ret |-> "assert", MI |-> Adj.MI]
        ELSE IF Adj.ret = "false" THEN [ret |-> "false", MI |-> Adj.MI]
        ELSE IF Uses = "assert" THEN [ret |-> "assert", MI |-> Adj.MI]
        ELSE IF Uses = "true" THEN [ret |-> "false", MI |-> Adj.MI]
        ELSE [ret |-> "true", MI |-> Commit(Adj.MI, NewOpc)]

CompressEvexToVexImpl(MI) ==
    LET Desc == MI.Desc
        NewOpc == LookupNewOpc(Desc)
        Uses == usesExtendedRegister(MI)
        Adj == performCustomAdjustments(MI, NewOpc)
    IN  \* Check for EVEX instructions only.
        IF Desc.Encoding # "EVEX" THEN [ret |-> "false", MI |-> MI]
        \* Check for EVEX instructions with mask or broadcast.
        ELSE IF Desc.EVEX_K \/ Desc.EVEX_B THEN [ret |-> "false", MI |-> MI]
        \* Check for non EVEX_V512 instrs only.
        ELSE IF Desc.EVEX_L2 /\ ~Desc.VEX_L THEN [ret |-> "false", MI |-> MI]
        ELSE IF NewOpc = OpcZero THEN [ret |-> "false", MI |-> MI]
        ELSE IF Uses = "assert" THEN [ret |-> "assert", MI |-> MI]
        ELSE IF Uses = "true" THEN [ret |-> "false", MI |-> MI]
        \* performCustomAdjustments writes the immediate in place: what it
        \* leaves is what the instruction holds when the call returns.
        ELSE IF Adj.ret = "assert" THEN [ret |-> "assert", MI |-> Adj.MI]
        ELSE IF Adj.ret = "false" THEN [ret |-> "false", MI |-> Adj.MI]
        ELSE [ret |-> "true", MI |-> Commit(Adj.MI, NewOpc)]

----------------------------------------------------------------------------
(* runOnMachineFunction, one step per loop iteration.                      *)

NoVisits(F) == [k \in 1..Len(F) |-> 0]
NoOutcome(F) == [k \in 1..Len(F) |-> "none"]

\* Entry: TII is fetched, hasAVX512 is tested, Changed is cleared.
runOnMachineFunction_Enter ==
    /\ pc \in {"idle", "done"}
    /\ runs < MaxRuns
    /\ runs' = runs + 1
    /\ MFentry' = MF
    /\ visits' = NoVisits(MF)
    /\ outcome' = NoOutcome(MF)
    /\ IF ~hasAVX512
       THEN /\ pc' = "done"
            /\ Result' = FALSE
            /\ UNCHANGED <<I, Changed>>
       ELSE /\ pc' = "loop"
            /\ I' = 1
            /\ Changed' = FALSE
            /\ UNCHANGED Result
    /\ UNCHANGED <<MF, hasAVX512, NDEBUG, MForig>>

\* Mutant: `Changed = ...` instead of `Changed |= ...`.
VisitInstr_Overwrite ==
    /\ pc = "loop"
    /\ I <= Len(MF)
    /\ LET r == CompressEvexToVexImpl(MF[I])
       IN /\ MF' = [MF EXCEPT ![I] = r.MI]
          /\ visits' = [visits EXCEPT ![I] = @ + 1]
          /\ outcome' = [outcome EXCEPT ![I] = r.ret]
          /\ IF r.ret = "assert"
             THEN /\ pc' = "aborted"
                  /\ UNCHANGED <<I, Changed>>
             ELSE /\ pc' = pc
                  /\ I' = I + 1
                  /\ Changed' = (r.ret = "true")
    /\ UNCHANGED <<hasAVX512, NDEBUG, Result, runs, MForig, MFentry>>

\* One iteration: Changed |= CompressEvexToVexImpl(MI).  A failed assertion
\* aborts the process.
VisitInstr ==
    /\ pc = "loop"
    /\ I <= Len(MF)
    /\ LET r == CompressEvexToVexImpl(MF[I])
       IN /\ MF' = [MF EXCEPT ![I] = r.MI]
          /\ visits' = [visits EXCEPT ![I] = @ + 1]
          /\ outcome' = [outcome EXCEPT ![I] = r.ret]
          /\ IF r.ret = "assert"
             THEN /\ pc' = "aborted"
                  /\ UNCHANGED <<I, Changed>>
             ELSE /\ pc' = pc
                  /\ I' = I + 1
                  /\ Changed' = (Changed \/ r.ret = "true")
    /\ UNCHANGED <<hasAVX512, NDEBUG, Result, runs, MForig, MFentry>>

\* The loops are over: return Changed.
runOnMachineFunction_Return ==
    /\ pc = "loop"
    /\ I > Len(MF)
    /\ pc' = "done"
    /\ Result' = Changed
    /\ UNCHANGED <<MF, hasAVX512, NDEBUG, I, Changed, runs, MForig, MFentry,
                   visits, outcome>>

Next ==
    \/ runOnMachineFunction_Enter
    \/ VisitInstr
    \/ runOnMachineFunction_Return

----------------------------------------------------------------------------
(* The instructions the pass is run on.                                    *)

XMM15 == [cls |-> "XMM", idx |-> 15]
XMM16 == [cls |-> "XMM", idx |-> 16]
YMM20 == [cls |-> "YMM", idx |-> 20]
ZMM0 == [cls |-> "ZMM", idx |-> 0]

RegInputs == {XMM15, XMM16, YMM20, ZMM0}
\* Immediates are int64_t; an i8 immediate of 255 may arrive sign extended.
ImmInputs == {-1, 0, 1, 2, 3, 7, 15, 16, 23}
OpcInputs ==
    {"VADDPSZ128rr", "VADDPSZ256rr", "VALIGNDZ128rri", "VALIGNQZ128rri",
     "VSHUFF32X4Z256rri", "VRNDSCALEPSZ128rri", "VRNDSCALEPDZ256rri",
     "VPTERNLOGDZ128rri", "VADDPSrr"}

\* Opcodes whose last explicit operand is an immediate.
HasImm(Opc) ==
    Opc \in VALIGNOpcs \cup VSHUFOpcs \cup VRNDSCALEOpcs \cup {"VPTERNLOGDZ128rri"}

DescInputs ==
    [Opcode : OpcInputs, Encoding : {"EVEX", "VEX"}, EVEX_K : BOOLEAN,
     EVEX_B : BOOLEAN, EVEX_L2 : BOOLEAN, VEX_L : BOOLEAN]

MkInstr(Desc, r1, r2, v) ==
    [Desc |-> Desc,
     Operands |-> IF HasImm(Desc.Opcode) THEN <<RegOp(r1), RegOp(r2), ImmOp(v)>>
                  ELSE <<RegOp(r1), RegOp(r2)>>,
     AsmPrinterFlag |-> FALSE]

\* Every descriptor with every pair of registers and every immediate.
InstrInputs ==
    {MkInstr(d, r1, r2, v) : d \in DescInputs, r1 \in RegInputs, r2 \in RegInputs,
                             v \in ImmInputs}

EvexDesc(Opc, K, B, L2, L) ==
    [Opcode |-> Opc, Encoding |-> "EVEX", EVEX_K |-> K, EVEX_B |-> B,
     EVEX_L2 |-> L2, VEX_L |-> L]

\* The instructions of the multi-instruction functions: one per path of
\* CompressEvexToVexImpl.
SampleInstrs ==
    { MkInstr(EvexDesc("VADDPSZ128rr", FALSE, FALSE, FALSE, FALSE), XMM15, XMM15, 0),
      MkInstr(EvexDesc("VALIGNQZ128rri", FALSE, FALSE, FALSE, FALSE), XMM15, XMM15, 3),
      MkInstr(EvexDesc("VALIGNDZ128rri", FALSE, FALSE, FALSE, FALSE), XMM16, XMM15, 1),
      MkInstr(EvexDesc("VSHUFF32X4Z256rri", FALSE, FALSE, FALSE, TRUE), XMM15, XMM15, 2),
      MkInstr(EvexDesc("VRNDSCALEPSZ128rri", FALSE, FALSE, FALSE, FALSE), XMM15, XMM15, 23),
      MkInstr(EvexDesc("VRNDSCALEPDZ256rri", FALSE, FALSE, FALSE, TRUE), XMM15, XMM15, 7),
      MkInstr(EvexDesc("VADDPSZ256rr", TRUE, FALSE, FALSE, TRUE), XMM15, XMM15, 0),
      MkInstr(EvexDesc("VADDPSZ128rr", FALSE, FALSE, TRUE, FALSE), XMM15, XMM15, 0),
      MkInstr(EvexDesc("VADDPSZ128rr", FALSE, FALSE, FALSE, FALSE), XMM15, ZMM0, 0),
      MkInstr(EvexDesc("VADDPSZ256rr", FALSE, TRUE, FALSE, TRUE), XMM15, XMM15, 0),
      MkInstr(EvexDesc("VADDPSZ256rr", FALSE, FALSE, FALSE, TRUE), XMM15, YMM20, 0),
      MkInstr(TIIget("VADDPSrr"), XMM15, XMM15, 0) }

RECURSIVE SeqsUpTo(_, _)
SeqsUpTo(S, n) ==
    IF n = 0 THEN {<<>>}
    ELSE LET shorter == SeqsUpTo(S, n - 1)
         IN shorter \cup {Append(f, x) : f \in shorter, x \in S}

InitWith(F) ==
    /\ MF = F
    /\ MForig = F
    /\ MFentry = F
    /\ hasAVX512 \in BOOLEAN
    /\ NDEBUG \in BOOLEAN
    /\ pc = "idle"
    /\ I = 1
    /\ Changed = FALSE
    /\ Result = FALSE
    /\ runs = 0
    /\ visits = NoVisits(F)
    /\ outcome = NoOutcome(F)

\* Machine functions of up to MaxInstrs sample instructions.
Init == \E F \in SeqsUpTo(SampleInstrs, MaxInstrs) : InitWith(F)

Spec == Init /\ [][Next]_vars

\* A machine function of one instruction, any instruction.
InitOne == \E MI \in InstrInputs : InitWith(<<MI>>)

SpecOne == InitOne /\ [][Next]_vars

----------------------------------------------------------------------------
(* Vocabulary of the properties, stated on the instruction's data and on   *)
(* the static arrays, not through the operators of the pass.               *)

Instrs == DOMAIN MF

\* Long form, no mask, no broadcast, extended-width bit clear.
Eligible(Desc) ==
    Desc.Encoding = "EVEX" /\ ~Desc.EVEX_K /\ ~Desc.EVEX_B /\ ~Desc.EVEX_L2

\* The static array of the width class: 256 when VEX_L is set, else 128.
PartitionOf(Desc) ==
    IF Desc.VEX_L THEN X86EvexToVex256CompressTable ELSE X86EvexToVex128CompressTable

Keys(Entries) == {Entries[n].EvexOpcode : n \in DOMAIN Entries}

ShortOpcodes(Desc) ==
    {PartitionOf(Desc)[n].VexOpcode :
        n \in {m \in DOMAIN PartitionOf(Desc) :
                 PartitionOf(Desc)[m].EvexOpcode = Desc.Opcode}}

TableHit(Desc) == Desc.Opcode \in Keys(PartitionOf(Desc))

IsHighOperand(MO) ==
    MO.isReg /\ MO.Reg.cls \in {"XMM", "YMM"} /\ MO.Reg.idx \in 16..31
IsZMMOperand(MO) == MO.isReg /\ MO.Reg.cls = "ZMM"

HighOperand(MI) == \E n \in DOMAIN MI.Operands : IsHighOperand(MI.Operands[n])
ZMMOperand(MI) == \E n \in DOMAIN MI.Operands : IsZMMOperand(MI.Operands[n])

\* A high-index XMM/YMM operand stands before the first ZMM operand.
HighBeforeZMM(MI) ==
    \E n \in DOMAIN MI.Operands :
        /\ IsHighOperand(MI.Operands[n])
        /\ \A m \in 1..n : ~IsZMMOperand(MI.Operands[m])

\* The instruction reaches the immediate adjustment: eligible, a table hit,
\* no high register, and no ZMM register that a build with assert() stops at.
ReachesAdjustment(MI) ==
    /\ Eligible(MI.Desc)
    /\ TableHit(MI.Desc)
    /\ ~HighOperand(MI)
    /\ NDEBUG \/ ~ZMMOperand(MI)

ImmOf(MI) == MI.Operands[Len(MI.Operands)].Imm

SameButLastOperand(A, B) ==
    /\ Len(A.Operands) = Len(B.Operands)
    /\ \A n \in 1..(Len(A.Operands) - 1) : A.Operands[n] = B.Operands[n]

Untouched(k) == MF[k] = MFentry[k]

----------------------------------------------------------------------------
\* C1: all-or-nothing per instruction.  A visit that returned true left the
\* table's short-form opcode, the annotation, and operands that differ from
\* the old ones at most in the last (immediate) operand, and only for the
\* opcodes of the adjustment set; a visit that returned false, a visit that
\* stopped at an assertion, and no visit at all leave the instruction as it
\* was at the entry of the run.
AllOrNothing ==
    \A k \in Instrs :
        IF outcome[k] = "true"
        THEN /\ MF[k].Desc.Opcode \in ShortOpcodes(MFentry[k].Desc)
             /\ MF[k].AsmPrinterFlag
             /\ SameButLastOperand(MF[k], MFentry[k])
             /\ MFentry[k].Desc.Opcode \notin VALIGNOpcs \cup VSHUFOpcs
                    => MF[k].Operands = MFentry[k].Operands
        ELSE Untouched(k)

\* A rounding instruction rejected at the last stage, the immediate check.
AllOrNothingWitness ==
    /\ outcome[1] = "false"
    /\ ReachesAdjustment(MFentry[1])
    /\ MFentry[1].Desc.Opcode \in VRNDSCALEOpcs
    /\ ImmOf(MFentry[1]) = 23
    /\ Untouched(1)

\* C2: idempotence.  From the second run on the function stays what it was
\* at the entry of the run, and the run returns false.
Idempotence ==
    runs >= 2 => /\ MF = MFentry
                 /\ pc = "done" => Result = FALSE

\* A second run completed over a function whose alignment instruction the
\* first run rewrote and scaled.
IdempotenceWitness ==
    /\ runs = 2
    /\ pc = "done"
    /\ \E k \in Instrs :
        /\ MForig[k].Desc.Opcode \in VALIGNQOpcs
        /\ MF[k].AsmPrinterFlag
        /\ ImmOf(MF[k]) = 8 * ImmOf(MForig[k])

\* C3: mask/broadcast gating.  An instruction whose descriptor has EVEX_K or
\* EVEX_B is never rewritten and its visit returns false.
MaskBroadcastGating ==
    \A k \in Instrs :
        MFentry[k].Desc.EVEX_K \/ MFentry[k].Desc.EVEX_B
            => Untouched(k) /\ outcome[k] \in {"none", "false"}

\* A broadcast alignment instruction that every other check would let through.
MaskBroadcastGatingWitness ==
    /\ outcome[1] = "false"
    /\ MFentry[1].Desc.EVEX_B
    /\ ~MFentry[1].Desc.EVEX_K
    /\ MFentry[1].Desc.Encoding = "EVEX"
    /\ ~MFentry[1].Desc.EVEX_L2
    /\ TableHit(MFentry[1].Desc)
    /\ MFentry[1].Desc.Opcode \in VALIGNOpcs
    /\ ~HighOperand(MFentry[1])
    /\ ~ZMMOperand(MFentry[1])

\* C4: the width class alone selects the partition.  A rewrite takes the
\* short opcode of the partition of the instruction's width; an opcode
\* missing from that partition is a miss, whatever the other partition
\* holds; EVEX_L2 is never rewritten, and a function of one such
\* instruction yields Changed = false.
WidthSelectsPartition ==
    \A k \in Instrs :
        LET Desc == MFentry[k].Desc
        IN /\ outcome[k] = "true"
                => ~Desc.EVEX_L2 /\ MF[k].Desc.Opcode \in ShortOpcodes(Desc)
           /\ Desc.EVEX_L2 \/ ~TableHit(Desc)
                => Untouched(k) /\ outcome[k] \in {"none", "false"}
           /\ Desc.EVEX_L2 /\ pc = "done" /\ Len(MF) = 1 => Result = FALSE

\* A 256-bit instruction whose opcode only the 128 partition holds.
WidthSelectsPartitionWitness ==
    /\ outcome[1] = "false"
    /\ Eligible(MFentry[1].Desc)
    /\ MFentry[1].Desc.VEX_L
    /\ MFentry[1].Desc.Opcode \in Keys(X86EvexToVex128CompressTable)
    /\ MFentry[1].Desc.Opcode \notin Keys(X86EvexToVex256CompressTable)
    /\ ~HighOperand(MFentry[1])
    /\ ~ZMMOperand(MFentry[1])
    /\ Untouched(1)

\* C5: register gating.  An eligible instruction with a table hit and a
\* high-index XMM/YMM operand at any position is left as it was, immediate
\* included, and does not make the run return true.
RegisterGating ==
    \A k \in Instrs :
        Eligible(MFentry[k].Desc) /\ TableHit(MFentry[k].Desc) /\ HighOperand(MFentry[k])
            => /\ Untouched(k)
               /\ outcome[k] # "true"
               /\ pc = "done" /\ Len(MF) = 1 => Result = FALSE

\* An alignment instruction whose second operand is YMM20.
RegisterGatingWitness ==
    /\ outcome[1] = "false"
    /\ Eligible(MFentry[1].Desc)
    /\ TableHit(MFentry[1].Desc)
    /\ MFentry[1].Desc.Opcode \in VALIGNQOpcs
    /\ MFentry[1].Operands[1].Reg = XMM15
    /\ MFentry[1].Operands[2].Reg = YMM20
    /\ ImmOf(MF[1]) = 3

\* C6: validation-guarded abort.  A rounding instruction that reaches the
\* adjustment is rewritten if and only if bits 4-7 of its immediate are
\* clear; rewritten, it keeps its immediate; otherwise it keeps everything.
RoundingValidation ==
    \A k \in Instrs :
        /\ outcome[k] # "none"
        /\ MFentry[k].Desc.Opcode \in VRNDSCALEOpcs
        /\ ReachesAdjustment(MFentry[k])
        => IF (ImmOf(MFentry[k]) \div 16) % 16 = 0
           THEN /\ outcome[k] = "true"
                /\ MF[k].Desc.Opcode \in ShortOpcodes(MFentry[k].Desc)
                /\ MF[k].AsmPrinterFlag
                /\ MF[k].Operands = MFentry[k].Operands
           ELSE outcome[k] = "false" /\ Untouched(k)

\* Immediate 0x07: rewritten, immediate kept.
RoundingValidationWitness ==
    /\ outcome[1] = "true"
    /\ MFentry[1].Desc.Opcode \in VRNDSCALEOpcs
    /\ ImmOf(MFentry[1]) = 7
    /\ ImmOf(MF[1]) = 7
    /\ MF[1].Desc.Opcode # MFentry[1].Desc.Opcode

\* The four results C7 lists for v = 0, 1, 2, 3.
LaneRemapAsStated(v) ==
    CASE v = 0 -> 32
      [] v = 1 -> 33
      [] v = 2 -> 40
      [] v = 3 -> 41

\* C7 as stated: a rewritten shuffle instruction with lane select 0, 1, 2, 3
\* holds 0x20, 0x21, 0x28, 0x29.
LaneSelectRemapAsStated ==
    \A k \in Instrs :
        /\ outcome[k] # "none"
        /\ MFentry[k].Desc.Opcode \in VSHUFOpcs
        /\ ReachesAdjustment(MFentry[k])
        /\ ImmOf(MFentry[k]) \in 0..3
        => /\ outcome[k] = "true"
           /\ ImmOf(MF[k]) = LaneRemapAsStated(ImmOf(MFentry[k]))

\* Bit 5 set, bit 1 of v at bit 4, bit 0 of v at bit 0.
LaneRemap(v) == 32 + 16 * ((v \div 2) % 2) + (v % 2)

\* C7 amended: a shuffle instruction that reaches the adjustment is always
\* rewritten, and its immediate becomes 0x20 | ((v & 2) << 3) | (v & 1) of
\* the old immediate v: 0x20, 0x21, 0x30, 0x31 for v = 0, 1, 2, 3.
LaneSelectRemap ==
    \A k \in Instrs :
        /\ outcome[k] # "none"
        /\ MFentry[k].Desc.Opcode \in VSHUFOpcs
        /\ ReachesAdjustment(MFentry[k])
        => /\ outcome[k] = "true"
           /\ ImmOf(MF[k]) = LaneRemap(ImmOf(MFentry[k]))
           /\ ImmOf(MFentry[k]) = 0 => ImmOf(MF[k]) = 32
           /\ ImmOf(MFentry[k]) = 1 => ImmOf(MF[k]) = 33
           /\ ImmOf(MFentry[k]) = 2 => ImmOf(MF[k]) = 48
           /\ ImmOf(MFentry[k]) = 3 => ImmOf(MF[k]) = 49

\* Lane select 2 became 0x30.
LaneSelectRemapWitness ==
    /\ outcome[1] = "true"
    /\ MFentry[1].Desc.Opcode \in VSHUFOpcs
    /\ ImmOf(MFentry[1]) = 2
    /\ ImmOf(MF[1]) = 48

\* C8: scale transform.  An alignment instruction that reaches the
\* adjustment (on a target with AVX-512) is rewritten by its first visit, and from then on, however
\* often the pass runs, its immediate is the original one times 8 (VALIGNQ)
\* or times 4 (VALIGND).
ScaleTransform ==
    \A k \in Instrs :
        /\ MForig[k].Desc.Opcode \in VALIGNOpcs
        /\ ReachesAdjustment(MForig[k])
        /\ hasAVX512
        /\ runs >= 2 \/ outcome[k] # "none"
        => /\ runs = 1 => outcome[k] = "true"
           /\ MF[k].AsmPrinterFlag
           /\ MF[k].Desc.Opcode \in ShortOpcodes(MForig[k].Desc)
           /\ ImmOf(MF[k]) = ImmOf(MForig[k]) *
                 (IF MForig[k].Desc.Opcode \in VALIGNQOpcs THEN 8 ELSE 4)

\* VALIGNQ with immediate 3 holds 24 after two runs.
ScaleTransformWitness ==
    /\ runs = 2
    /\ pc = "done"
    /\ MForig[1].Desc.Opcode \in VALIGNQOpcs
    /\ ImmOf(MForig[1]) = 3
    /\ ImmOf(MF[1]) = 24

\* C9 as stated, read for the builds that keep assert(): an eligible
\* instruction with a table hit and a ZMM operand always ends its visit with
\* the assertion failure, whatever the order of its operands.
ZMMAlwaysFaults ==
    \A k \in Instrs :
        /\ ~NDEBUG
        /\ outcome[k] # "none"
        /\ Eligible(MFentry[k].Desc)
        /\ TableHit(MFentry[k].Desc)
        /\ ZMMOperand(MFentry[k])
        => outcome[k] = "assert"

\* C9 amended: in a build that keeps assert(), such an instruction is never
\* rewritten; its visit ends with the assertion failure unless a high-index
\* XMM/YMM operand stands before the first ZMM operand, and then it returns
\* false like any register rejection.
ZMMFaultsWhenReached ==
    \A k \in Instrs :
        /\ ~NDEBUG
        /\ outcome[k] # "none"
        /\ Eligible(MFentry[k].Desc)
        /\ TableHit(MFentry[k].Desc)
        /\ ZMMOperand(MFentry[k])
        => /\ Untouched(k)
           /\ outcome[k] = (IF HighBeforeZMM(MFentry[k]) THEN "false" ELSE "assert")

\* The assertion stopped the pass at a ZMM operand that follows a low one.
ZMMFaultsWhenReachedWitness ==
    /\ pc = "aborted"
    /\ outcome[1] = "assert"
    /\ MFentry[1].Operands[1].Reg = XMM15
    /\ MFentry[1].Operands[2].Reg = ZMM0
    /\ Eligible(MFentry[1].Desc)
    /\ TableHit(MFentry[1].Desc)

RegistersOf(MI) == [n \in DOMAIN MI.Operands |-> MI.Operands[n].Reg]

\* C10: result of a run.  A completed run returns true exactly when it
\* changed the opcode of some instruction; without AVX-512 it returns false
\* and calls CompressEvexToVexImpl on nothing; with AVX-512 it calls it once
\* on every instruction; the function keeps its length, and every position
\* its operand count and registers.
RunResult ==
    /\ Len(MF) = Len(MForig)
    /\ \A k \in Instrs : RegistersOf(MF[k]) = RegistersOf(MForig[k])
    /\ pc = "done" =>
        /\ Result <=> \E k \in Instrs : MF[k].Desc.Opcode # MFentry[k].Desc.Opcode
        /\ ~hasAVX512 => /\ Result = FALSE
                         /\ MF = MForig
                         /\ \A k \in Instrs : visits[k] = 0
        /\ hasAVX512 => \A k \in Instrs : visits[k] = 1

\* A run that rewrote its first instruction, rejected its second and
\* returned true.
RunResultWitness ==
    /\ pc = "done"
    /\ Result = TRUE
    /\ Len(MF) = 2
    /\ outcome[1] = "true"
    /\ outcome[2] = "false"

====
